---------------------------- MODULE Spec2Model ----------------------------
(***************************************************************************)
(* Model of translate_strings_xml.py: placeholder protection, character-   *)
(* budgeted batching, deduplication, retry with backoff around the         *)
(* provider call, and reassembly of the translated texts.                  *)
(*                                                                         *)
(* A Python str is a sequence of one-character strings.                    *)
(***************************************************************************)
EXTENDS Integers, Sequences, FiniteSets, TLC

VARIABLES
    pc,                  \* position of the control flow
    input_exists,        \* args.input.exists()
    texts,               \* extract_texts(elements): the raw units
    max_chars,           \* --max-chars
    max_retries,         \* --max-retries
    protected,           \* translate_strings: protected
    token_maps,          \* translate_strings: token_maps
    cache,               \* translate_strings: cache (dict str -> str)
    unique_to_translate, \* translate_strings: unique_to_translate
    batches,             \* translate_strings: batches
    gen,                 \* yield_batches: locals of the generator
    bi,                  \* index of the batch the for loop of line 170 is at
    attempt,             \* translate_batch_with_retry: attempt
    slept,               \* the waits handed to time.sleep, in order
    sent,                \* the batches handed to translator.translate_batch
    answer,              \* what translator.translate_batch did last
    batch_translation,   \* translate_strings: batch_translation
    translated,          \* translate_strings: translated (line 181)
    result,              \* what translate_strings returned
    elements,            \* the text of the translatable elements of the tree
    written,             \* tree.write has run
    restored             \* unprotect_tokens applied to protect_tokens' output

vars == <<pc, input_exists, texts, max_chars, max_retries, protected,
          token_maps, cache, unique_to_translate, batches, gen, bi, attempt,
          slept, sent, answer, batch_translation, translated, result,
          elements, written, restored>>

-----------------------------------------------------------------------------
(* Bounds of the model.                                                    *)

\* raw units are concatenations of at most MaxPieces pieces (SpecProtect)
MaxPieces == 3
\* a document holds at most MaxUnits translatable elements (Spec)
MaxUnits == 3
\* yield_batches is handed at most MaxItems strings (SpecBatches)
MaxItems == 3
\* --max-retries ranges over -1 .. MaxRetries (SpecRetry)
MaxRetries == 3

-----------------------------------------------------------------------------
(* Program constants.                                                      *)

SEP == <<"\n", "<", "<", "<", "S", "E", "G", ">", ">", ">", "\n">>
BACKOFF_SECONDS == 2

-----------------------------------------------------------------------------
(* Strings.                                                                *)

Whitespace == {" ", "\t", "\n", "\r"}

\* not text.strip()
IsBlank(text) == \A i \in 1..Len(text) : text[i] \in Whitespace

DigitChars == <<"0", "1", "2", "3", "4", "5", "6", "7", "8", "9">>

IsDigit(c) == \E d \in 1..10 : DigitChars[d] = c

\* the decimal text of a natural number, as an f-string formats it
RECURSIVE Decimal(_)
Decimal(n) ==
    IF n < 10 THEN <<DigitChars[n + 1]>>
    ELSE Decimal(n \div 10) \o <<DigitChars[(n % 10) + 1]>>

\* key occurs in text at position p
OccursAt(text, key, p) ==
    /\ p + Len(key) - 1 <= Len(text)
    /\ \A j \in 1..Len(key) : text[p + j - 1] = key[j]

Contains(text, key) == \E p \in 1..Len(text) : OccursAt(text, key, p)

\* str.replace(key, value): every non-overlapping occurrence, left to right
RECURSIVE ReplaceFrom(_, _, _, _)
ReplaceFrom(text, key, value, p) ==
    IF p > Len(text) THEN <<>>
    ELSE IF Len(key) > 0 /\ OccursAt(text, key, p)
         THEN value \o ReplaceFrom(text, key, value, p + Len(key))
         ELSE <<text[p]>> \o ReplaceFrom(text, key, value, p + 1)

Replace(text, key, value) == ReplaceFrom(text, key, value, 1)

-----------------------------------------------------------------------------
(* Placeholder protection.                                                 *)

TypeChars == {"s", "d", "i", "f"}
EscapeChars == {"n", "t", "r"}

\* the number of consecutive digits of text from position p on
RECURSIVE DigitRun(_, _)
DigitRun(text, p) ==
    IF p <= Len(text) /\ IsDigit(text[p]) THEN 1 + DigitRun(text, p + 1) ELSE 0

\* PLACEHOLDER_RE: the length of its match at position p, 0 when it does not
\* match there. Alternatives in the order of the pattern:
\*   %\d+\$[sdif]  |  %[sdif]  |  \\n  |  \\t  |  \\r
PLACEHOLDER_RE(text, p) ==
    LET q == DigitRun(text, p + 1) IN
    IF text[p] = "%" /\ q >= 1 /\ p + q + 2 <= Len(text)
       /\ text[p + q + 1] = "$" /\ text[p + q + 2] \in TypeChars
    THEN q + 3
    ELSE IF text[p] = "%" /\ p + 1 <= Len(text) /\ text[p + 1] \in TypeChars
    THEN 2
    ELSE IF text[p] = "\\" /\ p + 1 <= Len(text) /\ text[p + 1] \in EscapeChars
    THEN 2
    ELSE 0

\* f"__TOK{idx}__"
TokenKey(idx) == <<"_", "_", "T", "O", "K">> \o Decimal(idx) \o <<"_", "_">>

\* PLACEHOLDER_RE.sub(repl, text) from position p on, idx being repl's counter:
\* the substituted text and the token map as the ordered (key, value) items
RECURSIVE SubFrom(_, _, _)
SubFrom(text, p, idx) ==
    IF p > Len(text) THEN [text |-> <<>>, map |-> <<>>]
    ELSE LET m == PLACEHOLDER_RE(text, p) IN
         IF m = 0
         THEN LET r == SubFrom(text, p + 1, idx) IN
              [text |-> <<text[p]>> \o r.text, map |-> r.map]
         ELSE LET r == SubFrom(text, p + m, idx + 1) IN
              [text |-> TokenKey(idx) \o r.text,
               map  |-> <<[key |-> TokenKey(idx),
                           value |-> SubSeq(text, p, p + m - 1)]>> \o r.map]

protect_tokens(text) == SubFrom(text, 1, 0)

\* for key, value in token_map.items(): text = text.replace(key, value)
RECURSIVE unprotect_tokens(_, _)
unprotect_tokens(text, token_map) ==
    IF token_map = <<>> THEN text
    ELSE unprotect_tokens(Replace(text, Head(token_map).key, Head(token_map).value),
                          Tail(token_map))

-----------------------------------------------------------------------------
(* Batch planning.                                                         *)

\* yield_batches: the generator's locals before the first item
gen_start == [pos |-> 1, batch |-> <<>>, length |-> 0, out |-> <<>>]

\* yield_batches, line 75: the accumulated batch is closed before text
closes_batch(g, text, max) ==
    g.batch # <<>> /\ (g.length + Len(SEP) + Len(text)) > max

\* yield_batches, line 80: text alone is over the budget
is_oversized(text, max) == Len(text) > max

\* yield_batches, line 87: the length the accumulator has after text joins it
length_after(length, text) ==
    length + Len(text) + (IF length # 0 THEN Len(SEP) ELSE 0)

\* yield_step with the test of line 80 ahead of the test of line 75: an
\* oversized text is emitted while the accumulated batch stays open
yield_step_oversize_first(g, text, max) ==
    IF is_oversized(text, max)
    THEN [g EXCEPT !.pos = @ + 1, !.out = Append(@, <<text>>)]
    ELSE LET g1 == IF closes_batch(g, text, max)
                   THEN [g EXCEPT !.out = Append(@, g.batch),
                                  !.batch = <<>>, !.length = 0]
                   ELSE g
         IN  [g1 EXCEPT !.pos = @ + 1, !.batch = Append(@, text),
                        !.length = length_after(@, text)]

\* yield_batches, lines 72-87: one pass of the for loop, with item text
yield_step(g, text, max) ==
    LET g1 == IF closes_batch(g, text, max)
              THEN [g EXCEPT !.out = Append(@, g.batch),
                             !.batch = <<>>, !.length = 0]
              ELSE g
    IN  IF is_oversized(text, max)
        THEN [g1 EXCEPT !.pos = @ + 1, !.out = Append(@, <<text>>),
                        !.batch = <<>>, !.length = 0]
        ELSE [g1 EXCEPT !.pos = @ + 1, !.batch = Append(@, text),
                        !.length = length_after(@, text)]

\* yield_end without the final yield of lines 89-90
yield_end_dropped(g) == g.out

\* yield_batches, lines 89-90: the batches emitted once the input is exhausted
yield_end(g) == IF g.batch # <<>> THEN Append(g.out, g.batch) ELSE g.out

RECURSIVE yield_from(_, _, _)
yield_from(g, strings, max) ==
    IF g.pos > Len(strings) THEN yield_end(g)
    ELSE yield_from(yield_step(g, strings[g.pos], max), strings, max)

\* list(yield_batches(strings, max_chars))
yield_batches(strings, max) == yield_from(gen_start, strings, max)

\* the size of a batch joined with SEP
RECURSIVE SumLen(_)
SumLen(batch) == IF batch = <<>> THEN 0 ELSE Len(Head(batch)) + SumLen(Tail(batch))

SerializedSize(batch) ==
    SumLen(batch) + (IF Len(batch) > 0 THEN (Len(batch) - 1) * Len(SEP) ELSE 0)

-----------------------------------------------------------------------------
(* The provider and translate_batch.                                       *)

\* What translator.translate_batch(batch) can do: raise, return something that
\* is no list, or return a list whose items are None or strings.
None == [kind |-> "none", val |-> <<>>]
Str(s) == [kind |-> "str", val |-> s]

Raises == [kind |-> "raise", items |-> <<>>]
NotAList == [kind |-> "notlist", items |-> <<>>]
ListOf(items) == [kind |-> "list", items |-> items]

\* a translation that keeps every token: it rewrites the letters and puts a
\* word in front
Letter(c) == IF c = "a" THEN "x" ELSE IF c = "b" THEN "y" ELSE c
Translation(s) == <<"z">> \o [i \in 1..Len(s) |-> Letter(s[i])]

\* an item of an answer: missing, blank, or a translation
ItemAnswers(s) == {None, Str(<<" ">>), Str(Translation(s))}

\* every list of n items, the i-th taken from S[i]
RECURSIVE Lists(_, _)
Lists(S, n) ==
    IF n = 0 THEN {<<>>}
    ELSE {Append(l, x) : l \in Lists(S, n - 1), x \in S[n]}

FullAnswers(batch) ==
    {ListOf(l) : l \in Lists([i \in 1..Len(batch) |-> ItemAnswers(batch[i])], Len(batch))}

\* lists with one item too few or one too many
WrongCountAnswers(batch) ==
    LET good == [i \in 1..Len(batch) |-> Str(Translation(batch[i]))]
    IN  {ListOf(SubSeq(good, 1, Len(batch) - 1)), ListOf(Append(good, Str(<<"z">>)))}

ProviderOutputs(batch) ==
    {Raises, NotAList} \cup WrongCountAnswers(batch) \cup FullAnswers(batch)

\* translate_batch_raises without the length check of line 101
translate_batch_raises_no_count(batch, output) ==
    \/ output.kind = "raise"
    \/ output.kind # "list"

\* translate_batch, lines 94-105: the call ends in an exception
translate_batch_raises(batch, output) ==
    \/ output.kind = "raise"
    \/ output.kind # "list"
    \/ Len(output.items) # Len(batch)

\* translate_batch, line 109
translated_text(item) == IF item.kind = "none" THEN <<>> ELSE item.val

\* safe_item without the fallback to the original text
safe_item_no_fallback(original, item) == translated_text(item)

\* translate_batch, line 110
safe_item(original, item) ==
    IF IsBlank(translated_text(item)) THEN original ELSE translated_text(item)

Min(a, b) == IF a <= b THEN a ELSE b

\* translate_batch, lines 107-112: safe_output over zip(batch, output)
translate_batch(batch, output) ==
    [i \in 1..Min(Len(batch), Len(output.items)) |->
        safe_item(batch[i], output.items[i])]

\* retries_exhausted with >= for >
retries_exhausted_early(n, max) == n >= max

\* translate_batch_with_retry, line 124, attempt being already incremented
retries_exhausted(n, max) == n > max

RECURSIVE Pow2(_)
Pow2(n) == IF n <= 0 THEN 1 ELSE 2 * Pow2(n - 1)

\* backoff_wait with 2 ** attempt for 2 ** (attempt - 1)
backoff_wait_late(n) == BACKOFF_SECONDS * Pow2(n)

\* translate_batch_with_retry, line 130
backoff_wait(n) == BACKOFF_SECONDS * Pow2(n - 1)

-----------------------------------------------------------------------------
(* The cache of translate_strings.                                         *)

EmptyDict == [k \in {} |-> <<>>]

\* d[k] = v
Put(d, k, v) == [x \in (DOMAIN d) \cup {k} |-> IF x = k THEN v ELSE d[x]]

\* dedup_from without the lookup of line 164: every non-blank text is queued
RECURSIVE dedup_from_no_lookup(_, _, _, _)
dedup_from_no_lookup(prot, i, c, unique) ==
    IF i > Len(prot) THEN [cache |-> c, unique |-> unique]
    ELSE LET text == prot[i] IN
         IF IsBlank(text)
         THEN dedup_from_no_lookup(prot, i + 1, Put(c, text, text), unique)
         ELSE dedup_from_no_lookup(prot, i + 1, Put(c, text, <<>>),
                                   Append(unique, text))

\* dedup_from without the blank test of line 160: blank texts are queued too
RECURSIVE dedup_from_blank_queued(_, _, _, _)
dedup_from_blank_queued(prot, i, c, unique) ==
    IF i > Len(prot) THEN [cache |-> c, unique |-> unique]
    ELSE LET text == prot[i] IN
         IF text \notin DOMAIN c
         THEN dedup_from_blank_queued(prot, i + 1, Put(c, text, <<>>),
                                      Append(unique, text))
         ELSE dedup_from_blank_queued(prot, i + 1, c, unique)

\* translate_strings, lines 157-166, from the i-th protected text on
RECURSIVE dedup_from(_, _, _, _)
dedup_from(prot, i, c, unique) ==
    IF i > Len(prot) THEN [cache |-> c, unique |-> unique]
    ELSE LET text == prot[i] IN
         IF IsBlank(text) THEN dedup_from(prot, i + 1, Put(c, text, text), unique)
         ELSE IF text \notin DOMAIN c
              THEN dedup_from(prot, i + 1, Put(c, text, <<>>), Append(unique, text))
              ELSE dedup_from(prot, i + 1, c, unique)

\* translate_strings, lines 178-179: for original, item in zip(...): cache[..] = ..
RECURSIVE store_from(_, _, _, _)
store_from(c, batch, translation, i) ==
    IF i > Min(Len(batch), Len(translation)) THEN c
    ELSE store_from(Put(c, batch[i], translation[i]), batch, translation, i + 1)

\* store_batch building a new dict from the batch instead of updating cache
store_batch_rebuilt(c, batch, translation) ==
    store_from(EmptyDict, batch, translation, 1)

\* store_batch starting at the second pair
store_batch_from_second(c, batch, translation) ==
    store_from(c, batch, translation, 2)

store_batch(c, batch, translation) == store_from(c, batch, translation, 1)

\* resolve leaving out the last unit
resolve_short(c, prot) == [i \in 1..(Len(prot) - 1) |-> c[prot[i]]]

\* translate_strings, line 181
resolve(c, prot) == [i \in 1..Len(prot) |-> c[prot[i]]]

\* restore_all with the first unit's token map for every unit
restore_all_first_map(trans, maps) ==
    [i \in 1..Min(Len(trans), Len(maps)) |-> unprotect_tokens(trans[i], maps[1])]

\* translate_strings, line 189: unprotect over zip(translated, token_maps)
restore_all(trans, maps) ==
    [i \in 1..Min(Len(trans), Len(maps)) |-> unprotect_tokens(trans[i], maps[i])]

\* update_elements_text, lines 222-224: zip(elements, texts)
update_elements_text(elems, new) ==
    [i \in 1..Len(elems) |-> IF i <= Len(new) THEN new[i] ELSE elems[i]]

-----------------------------------------------------------------------------
(* Inputs.                                                                 *)

Rep(c, n) == [i \in 1..n |-> c]

\* every sequence of at most n members of S
SeqsUpTo(S, n) == UNION {[1..k -> S] : k \in 0..n}

\* the pieces raw units are made of: placeholders, plain text, and text that
\* looks like a token or like the start of a placeholder
Pieces ==
    { <<"%", "s">>, <<"%", "1", "$", "d">>, <<"\\", "n">>, <<"a">>, <<" ">>,
      <<"%">>, <<"1">>, TokenKey(0) }

RECURSIVE Concats(_)
Concats(n) ==
    IF n = 0 THEN {<<>>}
    ELSE LET prev == Concats(n - 1) IN prev \cup {s \o q : s \in prev, q \in Pieces}

\* the element texts of the documents of a run
Units ==
    { <<"a", "%", "s">>, <<"a", "%", "d">>, <<" ">>, <<>>, <<"b">>,
      TokenKey(0) \o <<"%", "s">> }

Docs == SeqsUpTo(Units, MaxUnits)

\* --max-chars of a run: 8 isolates the 9 characters of a__TOK0__, 21 holds
\* it together with b and one SEP, 50 holds every unit of a document
Budgets == {8, 21, 50}

\* --max-retries of a run: no retry (a negative value, which line 124 treats
\* as it treats 0) and one retry; SpecRetry covers -1 .. MaxRetries
RunRetries == {-1, 1}

\* the strings handed to yield_batches alone
BatchItems == {<<>>, <<"a">>, Rep("b", 3), Rep("c", 14)}
BatchBudgets == {0, 1, 12, 14, 16, 27}

\* the batches handed to translate_batch_with_retry alone
RetryBatches == {<<<<"a">>>>, <<<<"a">>, <<"b">> \o TokenKey(0)>>}

NoAnswer == [kind |-> "nothing", items |-> <<>>]

-----------------------------------------------------------------------------
(* main and translate_strings.                                             *)

args == <<input_exists, max_chars, max_retries>>
prepared == <<protected, token_maps, unique_to_translate, batches>>
provider == <<sent, answer>>

InitLocals ==
    /\ texts = <<>>
    /\ protected = <<>>
    /\ token_maps = <<>>
    /\ gen = gen_start
    /\ bi = 1
    /\ attempt = 0
    /\ slept = <<>>
    /\ sent = <<>>
    /\ answer = NoAnswer
    /\ batch_translation = <<>>
    /\ translated = <<>>
    /\ result = <<>>
    /\ written = FALSE
    /\ restored = <<>>

\* a run of main: the command line and the parsed document
Init ==
    /\ pc = "main"
    /\ input_exists \in BOOLEAN
    /\ elements \in (IF input_exists THEN Docs ELSE {<<>>})
    /\ max_chars \in Budgets
    /\ max_retries \in RunRetries
    /\ InitLocals
    /\ cache = EmptyDict
    /\ unique_to_translate = <<>>
    /\ batches = <<>>

\* main, lines 247-248
MainMissingInput ==
    /\ pc = "main"
    /\ ~input_exists
    /\ pc' = "exit"
    /\ UNCHANGED <<args, texts, prepared, cache, gen, bi, attempt, slept,
                   provider, batch_translation, translated, result, elements,
                   written, restored>>

\* MainNoNodes without the exit of line 257: the run goes on with no texts
MainNoNodesIgnored ==
    /\ pc = "main"
    /\ input_exists
    /\ Len(elements) = 0
    /\ texts' = elements
    /\ pc' = "protect"
    /\ UNCHANGED <<args, prepared, cache, gen, bi, attempt, slept,
                   provider, batch_translation, translated, result, elements,
                   written, restored>>

\* main, lines 250-257
MainNoNodes ==
    /\ pc = "main"
    /\ input_exists
    /\ Len(elements) = 0
    /\ pc' = "exit"
    /\ UNCHANGED <<args, texts, prepared, cache, gen, bi, attempt, slept,
                   provider, batch_translation, translated, result, elements,
                   written, restored>>

\* main, lines 250-261: extract_texts and the call of translate_strings.
\* An element without text (None) reads as the empty string.
MainExtract ==
    /\ pc = "main"
    /\ input_exists
    /\ Len(elements) # 0
    /\ texts' = elements
    /\ pc' = "protect"
    /\ UNCHANGED <<args, prepared, cache, gen, bi, attempt, slept,
                   provider, batch_translation, translated, result, elements,
                   written, restored>>

\* translate_strings, lines 150-155
Protect ==
    /\ pc = "protect"
    /\ protected' = [i \in 1..Len(texts) |-> protect_tokens(texts[i]).text]
    /\ token_maps' = [i \in 1..Len(texts) |-> protect_tokens(texts[i]).map]
    /\ pc' = "dedup"
    /\ UNCHANGED <<args, texts, unique_to_translate, batches, cache, gen, bi,
                   attempt, slept, provider, batch_translation, translated,
                   result, elements, written, restored>>

\* translate_strings, lines 157-166
Dedup ==
    /\ pc = "dedup"
    /\ LET d == dedup_from(protected, 1, EmptyDict, <<>>) IN
        /\ cache' = d.cache
        /\ unique_to_translate' = d.unique
    /\ pc' = "plan"
    /\ UNCHANGED <<args, texts, protected, token_maps, batches, gen, bi,
                   attempt, slept, provider, batch_translation, translated,
                   result, elements, written, restored>>

\* translate_strings, line 168
Plan ==
    /\ pc = "plan"
    /\ batches' = yield_batches(unique_to_translate, max_chars)
    /\ bi' = 1
    /\ attempt' = 0
    /\ pc' = "loop"
    /\ UNCHANGED <<args, texts, protected, token_maps, unique_to_translate,
                   cache, gen, slept, provider, batch_translation, translated,
                   result, elements, written, restored>>

\* translate_strings, lines 170-179, the provider answering the current batch
\* with a list of the right length: translate_batch_with_retry returns
\* (line 121), the check of line 173, and the cache update
TranslateOk ==
    /\ pc = "loop"
    /\ bi <= Len(batches)
    /\ \E output \in ProviderOutputs(batches[bi]) :
        /\ ~translate_batch_raises(batches[bi], output)
        /\ sent' = Append(sent, [index |-> bi, items |-> batches[bi]])
        /\ answer' = output
        /\ batch_translation' = translate_batch(batches[bi], output)
    /\ IF Len(batch_translation') # Len(batches[bi])
       THEN /\ pc' = "fatal"
            /\ UNCHANGED <<cache, bi>>
       ELSE /\ cache' = store_batch(cache, batches[bi], batch_translation')
            /\ bi' = bi + 1
            /\ pc' = "loop"
    /\ attempt' = 0
    /\ UNCHANGED <<args, texts, prepared, gen, slept, translated, result,
                   elements, written, restored>>

\* TranslateRetry going on to the next batch instead of repeating this one
TranslateRetrySkips ==
    /\ pc = "loop"
    /\ bi <= Len(batches)
    /\ \E output \in ProviderOutputs(batches[bi]) :
        /\ translate_batch_raises(batches[bi], output)
        /\ sent' = Append(sent, [index |-> bi, items |-> batches[bi]])
        /\ answer' = output
    /\ attempt' = attempt + 1
    /\ ~retries_exhausted(attempt', max_retries)
    /\ slept' = Append(slept, backoff_wait(attempt'))
    /\ bi' = bi + 1
    /\ UNCHANGED <<pc, args, texts, prepared, cache, gen,
                   batch_translation, translated, result, elements, written,
                   restored>>

\* TranslateRetry without the increment of line 123
TranslateRetryUncounted ==
    /\ pc = "loop"
    /\ bi <= Len(batches)
    /\ \E output \in ProviderOutputs(batches[bi]) :
        /\ translate_batch_raises(batches[bi], output)
        /\ sent' = Append(sent, [index |-> bi, items |-> batches[bi]])
        /\ answer' = output
    /\ attempt' = attempt
    /\ ~retries_exhausted(attempt' + 1, max_retries)
    /\ slept' = Append(slept, backoff_wait(attempt' + 1))
    /\ UNCHANGED <<pc, args, texts, prepared, cache, gen, bi,
                   batch_translation, translated, result, elements, written,
                   restored>>

\* translate_batch_with_retry, lines 122-138: the attempt failed and another
\* one follows after the backoff
TranslateRetry ==
    /\ pc = "loop"
    /\ bi <= Len(batches)
    /\ \E output \in ProviderOutputs(batches[bi]) :
        /\ translate_batch_raises(batches[bi], output)
        /\ sent' = Append(sent, [index |-> bi, items |-> batches[bi]])
        /\ answer' = output
    /\ attempt' = attempt + 1
    /\ ~retries_exhausted(attempt', max_retries)
    /\ slept' = Append(slept, backoff_wait(attempt'))
    /\ UNCHANGED <<pc, args, texts, prepared, cache, gen, bi,
                   batch_translation, translated, result, elements, written,
                   restored>>

\* TranslateFatal with the error swallowed: the loop goes on to the next batch
TranslateFatalSwallowed ==
    /\ pc = "loop"
    /\ bi <= Len(batches)
    /\ \E output \in ProviderOutputs(batches[bi]) :
        /\ translate_batch_raises(batches[bi], output)
        /\ sent' = Append(sent, [index |-> bi, items |-> batches[bi]])
        /\ answer' = output
    /\ attempt' = attempt + 1
    /\ retries_exhausted(attempt', max_retries)
    /\ bi' = bi + 1
    /\ UNCHANGED <<pc, args, texts, prepared, cache, gen, slept,
                   batch_translation, translated, result, elements, written,
                   restored>>

\* translate_batch_with_retry, lines 122-128: the attempt failed and the
\* retries are exhausted; the RuntimeError ends the run
TranslateFatal ==
    /\ pc = "loop"
    /\ bi <= Len(batches)
    /\ \E output \in ProviderOutputs(batches[bi]) :
        /\ translate_batch_raises(batches[bi], output)
        /\ sent' = Append(sent, [index |-> bi, items |-> batches[bi]])
        /\ answer' = output
    /\ attempt' = attempt + 1
    /\ retries_exhausted(attempt', max_retries)
    /\ pc' = "fatal"
    /\ UNCHANGED <<args, texts, prepared, cache, gen, bi, slept,
                   batch_translation, translated, result, elements, written,
                   restored>>

\* translate_strings, lines 181-189
Resolve ==
    /\ pc = "loop"
    /\ bi > Len(batches)
    /\ translated' = resolve(cache, protected)
    /\ IF Len(translated') # Len(token_maps)
       THEN /\ pc' = "fatal"
            /\ UNCHANGED result
       ELSE /\ result' = restore_all(translated', token_maps)
            /\ pc' = "returned"
    /\ UNCHANGED <<args, texts, prepared, cache, gen, bi, attempt, slept,
                   provider, batch_translation, elements, written, restored>>

\* main, lines 269-276
MainWrite ==
    /\ pc = "returned"
    /\ IF Len(result) # Len(elements)
       THEN /\ pc' = "fatal"
            /\ UNCHANGED <<elements, written>>
       ELSE /\ elements' = update_elements_text(elements, result)
            /\ written' = TRUE
            /\ pc' = "done"
    /\ UNCHANGED <<args, texts, prepared, cache, gen, bi, attempt, slept,
                   provider, batch_translation, translated, result, restored>>

Next ==
    \/ MainMissingInput
    \/ MainNoNodes
    \/ MainExtract
    \/ Protect
    \/ Dedup
    \/ Plan
    \/ TranslateOk
    \/ TranslateRetry
    \/ TranslateFatal
    \/ Resolve
    \/ MainWrite

Spec == Init /\ [][Next]_vars

-----------------------------------------------------------------------------
(* A run of main under fair scheduling: the program is one sequential      *)
(* flow, so a step that can be taken is taken; every provider call returns *)
(* or raises.  Documents are short and --max-retries ranges over every     *)
(* value from -1 to MaxRetries.                                            *)

LiveUnits == { <<"a", "%", "s">>, <<" ">>, <<"b">> }

LiveDocs == SeqsUpTo(LiveUnits, MaxUnits - 1)

InitLive ==
    /\ pc = "main"
    /\ input_exists \in BOOLEAN
    /\ elements \in (IF input_exists THEN LiveDocs ELSE {<<>>})
    /\ max_chars \in Budgets
    /\ max_retries \in -1..MaxRetries
    /\ InitLocals
    /\ cache = EmptyDict
    /\ unique_to_translate = <<>>
    /\ batches = <<>>

SpecLive == InitLive /\ [][Next]_vars /\ WF_vars(Next)

-----------------------------------------------------------------------------
(* protect_tokens and unprotect_tokens on one unit.                        *)

InitProtect ==
    /\ pc = "unit"
    /\ input_exists = TRUE
    /\ elements \in {<<s>> : s \in Concats(MaxPieces)}
    /\ max_chars = 0
    /\ max_retries = 0
    /\ InitLocals
    /\ cache = EmptyDict
    /\ unique_to_translate = <<>>
    /\ batches = <<>>

\* protect_tokens(text), lines 28-44
ProtectUnit ==
    /\ pc = "unit"
    /\ texts' = elements
    /\ protected' = <<protect_tokens(elements[1]).text>>
    /\ token_maps' = <<protect_tokens(elements[1]).map>>
    /\ pc' = "protected"
    /\ UNCHANGED <<args, unique_to_translate, batches, cache, gen, bi,
                   attempt, slept, provider, batch_translation, translated,
                   result, elements, written, restored>>

\* unprotect_tokens(protected_text, token_map), lines 47-50
UnprotectUnit ==
    /\ pc = "protected"
    /\ restored' = <<unprotect_tokens(protected[1], token_maps[1])>>
    /\ pc' = "restored"
    /\ UNCHANGED <<args, texts, prepared, cache, gen, bi, attempt, slept,
                   provider, batch_translation, translated, result, elements,
                   written>>

NextProtect == ProtectUnit \/ UnprotectUnit

SpecProtect == InitProtect /\ [][NextProtect]_vars

-----------------------------------------------------------------------------
(* yield_batches on its own, one pass of its loop at a time.               *)

InitBatches ==
    /\ pc = "yield"
    /\ input_exists = TRUE
    /\ elements = <<>>
    /\ max_chars \in BatchBudgets
    /\ max_retries = 0
    /\ InitLocals
    /\ cache = EmptyDict
    /\ unique_to_translate \in SeqsUpTo(BatchItems, MaxItems)
    /\ batches = <<>>

\* yield_batches, lines 72-87
YieldStep ==
    /\ pc = "yield"
    /\ gen.pos <= Len(unique_to_translate)
    /\ gen' = yield_step(gen, unique_to_translate[gen.pos], max_chars)
    /\ UNCHANGED <<pc, args, texts, prepared, cache, bi, attempt, slept,
                   provider, batch_translation, translated, result, elements,
                   written, restored>>

\* yield_batches, lines 89-90
YieldEnd ==
    /\ pc = "yield"
    /\ gen.pos > Len(unique_to_translate)
    /\ batches' = yield_end(gen)
    /\ pc' = "yielded"
    /\ UNCHANGED <<args, texts, protected, token_maps, unique_to_translate,
                   cache, gen, bi, attempt, slept, provider, batch_translation,
                   translated, result, elements, written, restored>>

NextBatches == YieldStep \/ YieldEnd

SpecBatches == InitBatches /\ [][NextBatches]_vars

-----------------------------------------------------------------------------
(* translate_batch_with_retry on one batch.                                *)

InitRetry ==
    /\ pc = "loop"
    /\ input_exists = TRUE
    /\ elements = <<>>
    /\ max_chars = 0
    /\ max_retries \in -1..MaxRetries
    /\ InitLocals
    /\ batches \in {<<b>> : b \in RetryBatches}
    /\ unique_to_translate = batches[1]
    /\ cache = dedup_from(batches[1], 1, EmptyDict, <<>>).cache

NextRetry == TranslateOk \/ TranslateRetry \/ TranslateFatal

SpecRetry == InitRetry /\ [][NextRetry]_vars

-----------------------------------------------------------------------------
(* What the claims speak of.                                               *)

Finished == pc \in {"returned", "done"}

\* the placeholder occurrences of a text, in order: the matches of PLACEHOLDER_RE
Placeholders(text) ==
    LET m == protect_tokens(text).map IN [j \in 1..Len(m) |-> m[j].value]

\* the (call, position) pairs at which the provider was handed the value v
Submissions(v) ==
    {<<c, k>> \in (1..Len(sent)) \X (1..MaxUnits + 1) :
        k <= Len(sent[c].items) /\ sent[c].items[k] = v}

\* no call of the provider has failed so far: every call advanced the loop
NoFailureSoFar == Len(sent) = bi - 1

\* the batch of the provider's last call
LastBatch == sent[Len(sent)].items

\* the provider's last answer was taken by translate_batch
LastAccepted == Len(sent) > 0 /\ ~translate_batch_raises(LastBatch, answer)

\* the provider's last answer is a list of the wrong length
LastMismatched ==
    Len(sent) > 0 /\ answer.kind = "list" /\ Len(answer.items) # Len(LastBatch)

Max(a, b) == IF a >= b THEN a ELSE b

-----------------------------------------------------------------------------
(* C1 *)

\* C1: for every string s, unprotect_tokens applied to the result of
\* protect_tokens(s) returns exactly s.
C1_RoundTrip == pc = "restored" => restored[1] = elements[1]

-----------------------------------------------------------------------------
(* C2 *)

FitsBudget(batch) ==
    \/ SerializedSize(batch) <= max_chars
    \/ Len(batch) = 1 /\ Len(batch[1]) > max_chars

\* C2: every batch yield_batches emits has a serialized size (items plus one
\* SEP between consecutive items) of at most max_chars, unless it is a
\* singleton whose only item is longer than max_chars.
C2_BatchWithinBudget ==
    /\ \A j \in 1..Len(gen.out) : FitsBudget(gen.out[j])
    /\ \A j \in 1..Len(batches) : FitsBudget(batches[j])

-----------------------------------------------------------------------------
(* C3 *)

\* C3: with a provider that keeps every token, each output unit of
\* translate_strings holds exactly the placeholder occurrences of its own
\* input unit, in order and unaltered.
C3_PlaceholdersKept ==
    Finished =>
        \A i \in 1..Len(texts) :
            /\ i <= Len(result)
            /\ Placeholders(result[i]) = Placeholders(texts[i])

-----------------------------------------------------------------------------
(* C4 *)

\* C4: while no provider call has failed, no non-blank protected value has
\* been submitted more than once; when such a run returns, every non-blank
\* protected value was submitted exactly once (one call, one position), and
\* units with the same protected text got the same translation.
C4_SubmittedOnce ==
    NoFailureSoFar =>
        /\ \A i \in 1..Len(protected) :
            ~IsBlank(protected[i]) => Cardinality(Submissions(protected[i])) <= 1
        /\ Finished =>
            /\ \A i \in 1..Len(protected) :
                ~IsBlank(protected[i]) => Cardinality(Submissions(protected[i])) = 1
            /\ \A i, j \in 1..Len(protected) :
                protected[i] = protected[j] => translated[i] = translated[j]

C4_Witness ==
    /\ pc = "done"
    /\ NoFailureSoFar
    /\ \E i, j \in 1..Len(protected) :
        /\ i # j
        /\ protected[i] = protected[j]
        /\ texts[i] # texts[j]
        /\ ~IsBlank(protected[i])
        /\ Cardinality(Submissions(protected[i])) = 1

-----------------------------------------------------------------------------
(* C5 *)

\* C5: no blank (empty or whitespace-only) text is ever part of a batch
\* handed to the provider, on any attempt, and when translate_strings
\* returns, every unit whose protected text is blank is returned unchanged,
\* and written back unchanged.
C5_BlankNeverSent ==
    /\ \A c \in 1..Len(sent) :
        \A k \in 1..Len(sent[c].items) : ~IsBlank(sent[c].items[k])
    /\ Finished =>
        \A i \in 1..Len(texts) :
            IsBlank(protected[i]) => i <= Len(result) /\ result[i] = texts[i]
    /\ pc = "done" =>
        \A i \in 1..Len(texts) : IsBlank(protected[i]) => elements[i] = texts[i]

C5_Witness ==
    /\ pc = "done"
    /\ Len(sent) >= 2
    /\ \E i, j, k \in 1..Len(texts) :
        /\ i < j /\ j < k
        /\ IsBlank(texts[i]) /\ texts[k] = texts[i]
        /\ ~IsBlank(texts[j])
        /\ result[i] = texts[i] /\ result[k] = texts[k]

-----------------------------------------------------------------------------
(* C6 *)

\* the provider calls made for the one batch of SpecRetry
Attempts == Len(sent)

\* translate_batch_with_retry has returned for the one batch of SpecRetry
Returned == pc = "loop" /\ bi = 2

\* C6 as stated: the call returns after k failures only if max_retries >= k,
\* and ends fatally after exactly max_retries + 1 provider attempts.
C6_AsStated ==
    /\ Returned => Attempts - 1 <= max_retries
    /\ pc = "fatal" => Attempts = max_retries + 1

\* C6, amended: with M = max(max_retries, 0), a provider that fails k times
\* and then succeeds yields the success result if M >= k, and a fatal error
\* after exactly M + 1 provider attempts if M < k.
C6_RetryCeiling ==
    LET M == Max(max_retries, 0) IN
    /\ Returned =>
        /\ Attempts - 1 <= M
        /\ LastAccepted
        /\ batch_translation = translate_batch(batches[1], answer)
    /\ pc = "fatal" => Attempts = M + 1 /\ ~LastAccepted
    /\ (pc = "loop" /\ bi = 1) => Attempts <= M /\ Attempts = attempt

C6_Witness ==
    /\ pc = "fatal"
    /\ max_retries >= 2
    /\ Attempts = max_retries + 1

-----------------------------------------------------------------------------
(* C7 *)

\* C7: when translate_strings returns, the output has as many elements as the
\* input and output[i] is the cache entry of input i's protected text restored
\* with unit i's token map; main writes output[i] into element i.
C7_PositionsKept ==
    /\ Finished =>
        /\ Len(result) = Len(texts)
        /\ Len(protected) = Len(texts)
        /\ Len(token_maps) = Len(texts)
        /\ \A i \in 1..Len(texts) :
            result[i] = unprotect_tokens(cache[protected[i]], token_maps[i])
    /\ pc = "done" => elements = result

C7_Witness ==
    /\ pc = "done"
    /\ \E i, j, k \in 1..Len(texts) :
        /\ i < j /\ j < k
        /\ texts[i] = texts[k]
        /\ Len(token_maps[i]) > 0
        /\ IsBlank(texts[j])
        /\ result[i] # texts[i]
        /\ result[j] = texts[j]

-----------------------------------------------------------------------------
(* C8 *)

\* the retries of the current batch are exhausted: the failures counted for
\* it exceed max_retries
Exhausted == attempt >= 1 /\ attempt > max_retries

\* C8: once the retries of a batch are exhausted the run has ended fatally: no
\* step follows, no batch after the failing one was or will be submitted,
\* translate_strings has returned nothing and the output was not written.
C8_AbortOnExhaustion ==
    Exhausted =>
        /\ pc = "fatal"
        /\ ~ENABLED Next
        /\ \A c \in 1..Len(sent) : sent[c].index <= bi
        /\ sent[Len(sent)].index = bi
        /\ translated = <<>>
        /\ result = <<>>
        /\ ~written
        /\ elements = texts

C8_Witness ==
    /\ pc = "fatal"
    /\ Exhausted
    /\ bi >= 2
    /\ bi < Len(batches)
    /\ ~written

-----------------------------------------------------------------------------
(* C9 *)

\* C9: an answer whose number of items differs from the batch's is never
\* accepted: it counts as a failed attempt, leaves the loop at the same batch
\* with a backoff when retries remain and ends the run fatally when none do;
\* what translate_batch_with_retry returns has the length of the batch.
C9_MismatchRejected ==
    /\ LastMismatched =>
        /\ attempt >= 1
        /\ bi = 1
        /\ batch_translation = <<>>
        /\ \A k \in 1..Len(batches[1]) : cache[batches[1][k]] = <<>>
        /\ IF attempt > max_retries
           THEN pc = "fatal"
           ELSE pc = "loop" /\ Len(slept) = attempt
    /\ Returned =>
        /\ Len(batch_translation) = Len(batches[1])
        /\ answer.kind = "list"
        /\ Len(answer.items) = Len(batches[1])

C9_Witness ==
    /\ pc = "fatal"
    /\ LastMismatched
    /\ Len(answer.items) < Len(LastBatch)
    /\ Attempts >= 3

-----------------------------------------------------------------------------
(* C10 *)

\* the item of an accepted answer is missing, empty or blank
IsBlankItem(item) == item.kind = "none" \/ IsBlank(item.val)

\* C10: when an accepted answer has a missing, empty or blank item at some
\* position, the translation recorded for that position is the protected text
\* submitted there, and every other position records the answer's item; no
\* blank string is recorded as the translation of a submitted value.
C10_BlankFallsBack ==
    /\ LastAccepted =>
        \A k \in 1..Len(LastBatch) :
            /\ cache[LastBatch[k]] =
                  (IF IsBlankItem(answer.items[k]) THEN LastBatch[k]
                   ELSE answer.items[k].val)
            /\ batch_translation[k] = cache[LastBatch[k]]
    /\ \A j \in 1..Len(batches) :
        j < bi => \A k \in 1..Len(batches[j]) : ~IsBlank(cache[batches[j][k]])

C10_Witness ==
    /\ LastAccepted
    /\ \E k, l \in 1..Len(LastBatch) :
        /\ k < l
        /\ answer.items[k].kind = "none"
        /\ ~IsBlankItem(answer.items[l])
        /\ cache[LastBatch[k]] = LastBatch[k]
        /\ cache[LastBatch[l]] = answer.items[l].val

-----------------------------------------------------------------------------
(* C11 *)

\* C11: when the input file is missing or the document has no translatable
\* node, the run is still in main or has exited there: translate_strings was
\* not entered, the provider was never called and nothing was written.
C11_InputErrorsExitEarly ==
    /\ (~input_exists \/ Len(elements) = 0) =>
        /\ pc \in {"main", "exit"}
        /\ texts = <<>>
        /\ sent = <<>>
        /\ answer = NoAnswer
        /\ ~written
    /\ pc = "exit" => ~input_exists \/ Len(elements) = 0

C11_Witness ==
    /\ pc = "exit"
    /\ input_exists
    /\ Len(elements) = 0
    /\ sent = <<>>
    /\ ~written

-----------------------------------------------------------------------------
(* C12 *)

\* the concatenation of a sequence of batches
RECURSIVE Flatten(_)
Flatten(bs) == IF bs = <<>> THEN <<>> ELSE Head(bs) \o Flatten(Tail(bs))

\* C12: yield_batches emits no empty batch; the batches emitted so far,
\* followed by the open batch, are exactly the items consumed so far, and the
\* batches emitted in all are exactly the input sequence, in order.
C12_BatchesPartitionInput ==
    /\ \A j \in 1..Len(gen.out) : gen.out[j] # <<>>
    /\ Flatten(gen.out) \o gen.batch = SubSeq(unique_to_translate, 1, gen.pos - 1)
    /\ pc = "yielded" =>
        /\ \A j \in 1..Len(batches) : batches[j] # <<>>
        /\ Flatten(batches) = unique_to_translate

C12_Witness ==
    /\ pc = "yielded"
    /\ Len(unique_to_translate) >= 3
    /\ Len(batches) = 2
    /\ Len(batches[2]) >= 2
    /\ Flatten(batches) = unique_to_translate

-----------------------------------------------------------------------------
(* C13 *)

\* the item the next pass of yield_batches' loop takes
NextItem == unique_to_translate[gen.pos]

\* C13: no batch holds an item longer than max_chars together with another
\* item, and the pass that takes such an item first emits the accumulated
\* items as their own batch, then the item alone, and leaves the accumulator
\* empty.
C13_OversizedAlone ==
    /\ [](\A j \in 1..Len(gen.out) :
            \A k \in 1..Len(gen.out[j]) :
                Len(gen.out[j][k]) > max_chars => Len(gen.out[j]) = 1)
    /\ [](\A k \in 1..Len(gen.batch) : Len(gen.batch[k]) <= max_chars)
    /\ [][(/\ pc = "yield"
           /\ gen.pos <= Len(unique_to_translate)
           /\ Len(NextItem) > max_chars)
          => /\ gen'.batch = <<>>
             /\ gen'.length = 0
             /\ gen'.out = (IF gen.batch # <<>> THEN Append(gen.out, gen.batch)
                            ELSE gen.out) \o <<<<NextItem>>>>]_vars

C13_Witness ==
    /\ pc = "yield"
    /\ gen.pos = 3
    /\ Len(unique_to_translate[1]) <= max_chars
    /\ Len(unique_to_translate[1]) > 0
    /\ Len(unique_to_translate[2]) > max_chars
    /\ gen.out = <<<<unique_to_translate[1]>>, <<unique_to_translate[2]>>>>
    /\ gen.batch = <<>>
    /\ gen.length = 0

-----------------------------------------------------------------------------
(* C14 *)

RECURSIVE Sum(_)
Sum(q) == IF q = <<>> THEN 0 ELSE Head(q) + Sum(Tail(q))

\* the n-th wait is BACKOFF_SECONDS * 2^(n-1), one wait per failed attempt
\* that is followed by another attempt, none after the last attempt
WaitsDouble ==
    /\ \A n \in 1..Len(slept) : slept[n] = BACKOFF_SECONDS * Pow2(n - 1)
    /\ Len(slept) >= 3 => SubSeq(slept, 1, 3) = <<2, 4, 8>>
    /\ (pc = "loop" /\ bi = 1) => Len(slept) = Attempts /\ attempt = Attempts
    /\ (pc = "fatal" \/ Returned) => Len(slept) = Attempts - 1

\* C14 as stated: the waits double from BACKOFF_SECONDS on, and a call that
\* ends fatally has slept BACKOFF_SECONDS * (2^max_retries - 1) in total
\* (both sides doubled, so that 2^-1 stays an integer).
C14_AsStated ==
    /\ WaitsDouble
    /\ pc = "fatal" =>
        2 * Sum(slept) = BACKOFF_SECONDS * (Pow2(max_retries + 1) - 2)

\* C14, amended: the waits double from BACKOFF_SECONDS on, none follows the
\* attempt that exhausts the retries, and a call that ends fatally has slept
\* BACKOFF_SECONDS * (2^M - 1) in total, M = max(max_retries, 0).
C14_BackoffDoubles ==
    LET M == Max(max_retries, 0) IN
    /\ WaitsDouble
    /\ pc = "fatal" =>
        /\ Len(slept) = M
        /\ Sum(slept) = BACKOFF_SECONDS * (Pow2(M) - 1)

C14_Witness ==
    /\ pc = "fatal"
    /\ max_retries = 3
    /\ slept = <<2, 4, 8>>

-----------------------------------------------------------------------------
(* C15 *)

\* the provider calls made for the j-th planned batch
CallsFor(j) == {c \in 1..Len(sent) : sent[c].index = j}

\* C15: the provider is handed the planned batches in planning order, each
\* call carrying exactly the planned batch; a batch is first submitted only
\* when every batch before it has been answered, is resubmitted unchanged on
\* a retry and never after its answer was accepted; the i-th item of an
\* accepted answer is recorded for the i-th item of the submitted batch.
C15_PlanningOrder ==
    /\ \A c \in 1..Len(sent) :
        /\ sent[c].index \in 1..Len(batches)
        /\ sent[c].index <= bi
        /\ sent[c].items = batches[sent[c].index]
        /\ c = 1 => sent[c].index = 1
        /\ c > 1 => sent[c].index \in {sent[c - 1].index, sent[c - 1].index + 1}
    /\ \A j \in 1..Len(batches) : j < bi => CallsFor(j) # {}
    /\ pc = "loop" => Cardinality(CallsFor(bi)) = attempt
    /\ pc \in {"returned", "done"} => bi = Len(batches) + 1
    /\ LastAccepted =>
        /\ sent[Len(sent)].index = bi - 1
        /\ \A k \in 1..Len(LastBatch) :
            /\ batch_translation[k] = safe_item(LastBatch[k], answer.items[k])
            /\ cache[LastBatch[k]] = batch_translation[k]

C15_Witness ==
    /\ pc = "done"
    /\ Len(batches) >= 2
    /\ Cardinality(CallsFor(1)) = 2
    /\ Cardinality(CallsFor(2)) = 2
    /\ Len(batches[1]) + Len(batches[2]) >= 3

-----------------------------------------------------------------------------
(* C16 *)

\* C16 as stated: no step removes a cache entry or changes the value of an
\* entry that exists.
C16_AsStated ==
    [][\A k \in DOMAIN cache : k \in DOMAIN cache' /\ cache'[k] = cache[k]]_vars

\* C16, amended: no step removes a cache entry; the entry of a queued value
\* is created holding the empty string (line 165) and changes once, when the
\* accepted answer of its batch is recorded (line 179), to a non-blank value;
\* an entry that holds a non-blank value or belongs to a blank text never
\* changes.
C16_CacheFilledOnce ==
    [][\A k \in DOMAIN cache :
          /\ k \in DOMAIN cache'
          /\ cache'[k] # cache[k] =>
                /\ cache[k] = <<>>
                /\ ~IsBlank(k)
                /\ ~IsBlank(cache'[k])
                /\ pc = "loop"
                /\ bi' = bi + 1
                /\ \E i \in 1..Len(batches[bi]) : batches[bi][i] = k]_vars

\* a run in which two batches were answered one after the other
C16_Witness ==
    /\ pc = "done"
    /\ Len(batches) >= 2
    /\ Cardinality(DOMAIN cache) >= 3
    /\ \E k \in DOMAIN cache : IsBlank(k) /\ cache[k] = k
    /\ \A k \in DOMAIN cache : ~IsBlank(k) => ~IsBlank(cache[k])

-----------------------------------------------------------------------------
(* C17 *)

\* the loop of line 170 has run through every batch
BatchesDone == pc \in {"loop", "returned", "done"} /\ bi > Len(batches)

\* the values queued at line 166
Queued == {unique_to_translate[i] : i \in 1..Len(unique_to_translate)}

\* once every batch is processed, each queued value has a cache entry that an
\* accepted answer filled (it is not blank, hence not the empty string of
\* line 165, and for the last batch it is the item recorded from the answer),
\* and a run never returns while a queued value lacks its translation
QueuedFilled ==
    /\ BatchesDone =>
        /\ \A k \in Queued : k \in DOMAIN cache /\ ~IsBlank(cache[k])
        /\ LastAccepted =>
            \A k \in 1..Len(LastBatch) :
                cache[LastBatch[k]] = safe_item(LastBatch[k], answer.items[k])
    /\ (\E k \in Queued : cache[k] = <<>>) => ~Finished
    /\ pc = "fatal" => \E k \in Queued : cache[k] = <<>>

\* C17 as stated: queued values are filled when batch processing has finished,
\* a run with an unfilled queued value ends in the fatal error, and every unit
\* is resolved from an entry that a provider answer filled.
C17_AsStated ==
    /\ QueuedFilled
    /\ Finished => \A i \in 1..Len(protected) : protected[i] \in Queued

\* C17, amended: queued values are filled when batch processing has finished,
\* a run with an unfilled queued value ends in the fatal error, and every unit
\* whose protected text is not blank is resolved from an entry that a provider
\* answer filled, never from the empty string of line 165; a unit whose
\* protected text is blank is resolved from its self-mapped entry (line 161),
\* which no provider answer fills.
C17_QueuedAllFilled ==
    /\ QueuedFilled
    /\ Finished =>
        \A i \in 1..Len(protected) :
            IF IsBlank(protected[i])
            THEN protected[i] \notin Queued /\ translated[i] = protected[i]
            ELSE /\ protected[i] \in Queued
                 /\ translated[i] = cache[protected[i]]
                 /\ ~IsBlank(translated[i])

C17_Witness ==
    /\ pc = "returned"
    /\ Len(unique_to_translate) >= 2
    /\ \E i \in 1..Len(protected) : IsBlank(protected[i])
    /\ Len(batches) >= 2
    /\ \A i \in 1..Len(unique_to_translate) :
        ~IsBlank(cache[unique_to_translate[i]])

-----------------------------------------------------------------------------
(* C18 *)

\* the tokens of the unit's token map, in the order protect_tokens made them
Tokens == [i \in 1..Len(token_maps[1]) |-> token_maps[1][i].key]

\* C18: the tokens protect_tokens produced for the unit are pairwise distinct,
\* no token is a substring of another token of the unit, and no token occurs
\* anywhere in the unit's original text.
C18_TokensCollisionFree ==
    pc \in {"protected", "restored"} =>
        /\ \A i, j \in 1..Len(Tokens) :
            i # j => Tokens[i] # Tokens[j] /\ ~Contains(Tokens[j], Tokens[i])
        /\ \A i \in 1..Len(Tokens) : ~Contains(elements[1], Tokens[i])

-----------------------------------------------------------------------------
(* C19 *)

\* C19: the count checks never fire.  Whenever translate_batch_with_retry
\* returns, its result is as long as the batch (line 173); the resolved list
\* is as long as the token-map list (line 183); the list returned to main is
\* as long as the element list (line 269); and a run that ended in a fatal
\* error ended in the one of line 125, its last provider answer rejected and
\* its retries exhausted, before anything was resolved.
C19_CountChecksNeverFire ==
    /\ LastAccepted => Len(batch_translation) = Len(LastBatch)
    /\ Finished =>
        /\ Len(translated) = Len(token_maps)
        /\ Len(translated) = Len(texts)
        /\ Len(result) = Len(elements)
    /\ pc = "fatal" =>
        /\ Len(sent) > 0
        /\ translate_batch_raises(LastBatch, answer)
        /\ retries_exhausted(attempt, max_retries)
        /\ bi <= Len(batches)
        /\ translated = <<>>
        /\ result = <<>>

\* a finished run in which the units outnumber the queued values and a batch
\* was retried
C19_Witness ==
    /\ pc = "done"
    /\ Len(texts) > Len(unique_to_translate)
    /\ Len(unique_to_translate) >= 2
    /\ slept # <<>>
    /\ Len(result) = Len(texts)

-----------------------------------------------------------------------------
(* C20 *)

\* the run has ended: SystemExit, the fatal error, or the output written
Terminated == pc \in {"exit", "fatal", "done"}

\* the most attempts one batch gets
AttemptCeiling == Max(max_retries, 0) + 1

\* C20: every run ends, with a result or with a fatal error, for every
\* max_retries including 0 and negative values; every batch the loop has left
\* behind was attempted at least once and at most max(max_retries, 0) + 1
\* times, the current batch at most as often, the batch of a fatal error
\* exactly as often, and the provider was called at most
\* (number of planned batches) * (max(max_retries, 0) + 1) times.
C20_Terminates ==
    /\ <>Terminated
    /\ [](/\ \A j \in 1..Len(batches) :
               /\ Cardinality(CallsFor(j)) <= AttemptCeiling
               /\ j < bi => Cardinality(CallsFor(j)) >= 1
               /\ j > bi => CallsFor(j) = {}
          /\ (pc = "fatal" /\ sent # <<>>) =>
               Cardinality(CallsFor(bi)) = AttemptCeiling
          /\ Finished => bi = Len(batches) + 1
          /\ Len(sent) <= Len(batches) * AttemptCeiling)

\* a run that used every attempt it had: two batches, the first accepted at
\* its last attempt, the second failing at every attempt
C20_Witness ==
    /\ pc = "fatal"
    /\ max_retries = 2
    /\ Len(batches) = 2
    /\ Cardinality(CallsFor(1)) = 3
    /\ Cardinality(CallsFor(2)) = 3
    /\ Len(sent) = Len(batches) * AttemptCeiling

=============================================================================
